---- MODULE Spec2Model ----
(***************************************************************************)
(* Model of chanify's message envelope / message crypto (model/message.go) *)
(* and of the request helpers of the core package (bindBodyJSON,           *)
(* verifyUser, verifyDevice, verifySign, parseToken, getToken).            *)
(*                                                                         *)
(* Byte slices are records [isNil, bytes]: Go distinguishes a nil slice    *)
(* from a present zero-length one and EncryptContent tests "!= nil".       *)
(* AES-GCM is modelled symbolically: a sealed box opens only under the     *)
(* same key, nonce and associated data it was sealed with.                 *)
(***************************************************************************)
EXTENDS Integers, Sequences, FiniteSets, TLC

VARIABLES
    m,          \* the Message: From, Channel, Content, Ciphertext, Sound
    ret,        \* what the last Message operation did (its input, the message before, its outcome)
    envelopes,  \* the EncryptData calls that returned: key, ts, payload, out
    nops,       \* number of Message operations performed so far
    req,        \* the inbound request: wire body, content type, whether the body can be read
    ctx,        \* the request context: the value recorded under gin.BodyBytesKey
    bind,       \* what bindBodyJSON did: error, bytes handed to the JSON parser, target object
    ver,        \* what the last verifyUser / verifyDevice call did
    tok         \* what the last getToken / parseToken call did

vars == <<m, ret, envelopes, nops, req, ctx, bind, ver, tok>>
msgVars == <<m, ret, envelopes, nops>>
reqVars == <<req, ctx, bind, ver, tok>>

----------------------------------------------------------------------------
(* Bounds of the model *)

\* Message operations performed on one Message
MaxOps == 4
\* EncryptData outputs kept for pairwise comparison
MaxEnvelopes == 2
\* length of the token strings offered in header, query and path
MaxTokLen == 2

(* Program constants *)

\* make([]byte, 12)
NonceLen == 12
\* key[32 : 32+32]
TagStart == 32

TagEnd == TagStart + TagStart

----------------------------------------------------------------------------
(* Byte slices *)

NilBytes == [isNil |-> TRUE, bytes |-> <<>>]

Bytes(s) == [isNil |-> FALSE, bytes |-> s]

\* len(b) > 0
NonEmpty(b) == Len(b.bytes) > 0

\* a 64-bit unsigned integer as four 16-bit words, most significant first
Timestamps ==
    { <<0, 0, 0, 0>>, <<0, 0, 0, 1>>, <<0, 0, 1, 0>>, <<258, 772, 1286, 1800>>,
      <<65535, 65535, 65535, 65535>> }

\* byte(v >> (56 - 8*i)) for i in 0..7
U64Byte(v, i) ==
    LET w == v[(i \div 2) + 1]
    IN  IF i % 2 = 0 THEN w \div 256 ELSE w % 256

\* binary.BigEndian.PutUint64
PutUint64(v) == [i \in 1..8 |-> U64Byte(v, i - 1)]

----------------------------------------------------------------------------
(* Keys *)

\* a key of n bytes: byte number i (1-based) is i, except byte number at, which is v
MkKey(n, at, v) == [i \in 1..n |-> IF i = at THEN v ELSE i]

K1 == MkKey(TagEnd, 1, 1)
\* differs from K1 in the last byte of the AES half
K2 == MkKey(TagEnd, TagStart, 200)
\* differs from K1 in the first byte of the associated-data half
K3 == MkKey(TagEnd, TagStart + 1, 200)
\* differs from K1 in the last byte of the associated-data half
K4 == MkKey(TagEnd, TagEnd, 200)
\* too short to build the cipher from
KShort == MkKey(TagStart \div 2, 1, 1)

\* the keys the encryption operations are called with
EncKeys == {K1, K3, KShort}

\* the 64-byte keys a receiver may try
OpenKeys == {K1, K2, K3, K4}

WellFormed(key) == Len(key) = TagEnd

----------------------------------------------------------------------------
(* AES-GCM, symbolically *)

NewAESGCM(key) ==
    IF WellFormed(key)
    THEN [isNil |-> FALSE, key |-> SubSeq(key, 1, TagStart)]
    ELSE [isNil |-> TRUE, key |-> <<>>]

\* cipher.AEAD.Seal(nil, nonce, plaintext, additionalData)
Seal(aesgcm, nonce, plaintext, aad) ==
    << [k |-> aesgcm.key, n |-> nonce, a |-> aad, p |-> plaintext] >>

\* cipher.AEAD.Open(nil, nonce, ciphertext, additionalData)
Open(aesgcm, nonce, sealed, aad) ==
    IF /\ ~aesgcm.isNil
       /\ Len(sealed) = 1
       /\ sealed[1].k = aesgcm.key
       /\ sealed[1].n = nonce
       /\ sealed[1].a = aad
    THEN [ok |-> TRUE, p |-> sealed[1].p]
    ELSE [ok |-> FALSE, p |-> <<>>]

\* what a receiver does with nonce(12) || sealed
OpenFramed(key, framed) ==
    Open(NewAESGCM(key),
         SubSeq(framed, 1, NonceLen),
         SubSeq(framed, NonceLen + 1, Len(framed)),
         SubSeq(key, TagStart + 1, TagEnd))

\* the values rand.Read may leave in the nonce
RandNonces ==
    { [i \in 1..NonceLen |-> 0], [i \in 1..NonceLen |-> 17 * i] }

----------------------------------------------------------------------------
(* Tokens, and the Message builder of model/message.go *)

\* the validated tokens a Message is built from: node id and channel
Tokens == { [NodeID |-> Bytes(<<1>>), Channel |-> Bytes(<<7>>)],
            [NodeID |-> Bytes(<<2>>), Channel |-> NilBytes] }

\* the texts and sound names callers pass
Texts == { <<>>, <<97>> }

Sounds == { <<>>, <<115>> }

NoSound == [isNil |-> TRUE, Name |-> <<>>]

\* proto.Marshal(&pb.MsgContent{Type: pb.MsgType_Text, Text: text}):
\* the type field is always written, the text field only when non-empty
MarshalMsgContent(text) ==
    Bytes(<<8, 1>> \o (IF text = <<>> THEN <<>> ELSE <<18, Len(text)>> \o text))

NewMessage(tk) ==
    [From |-> tk.NodeID, Channel |-> tk.Channel, Content |-> NilBytes,
     Ciphertext |-> NilBytes, Sound |-> NoSound]

DisableToken(msg) == [msg EXCEPT !.From = NilBytes, !.Channel = NilBytes]

TextContent(msg, text) == [msg EXCEPT !.Content = MarshalMsgContent(text)]

SoundName(msg, sound) ==
    IF Len(sound) > 0
    THEN [msg EXCEPT !.Sound = [isNil |-> FALSE, Name |-> sound]]
    ELSE msg

\* proto.Marshal(&m.Message): the canonical bytes of the fields; an unset and
\* a zero-length bytes field serialize alike
Marshal(msg) ==
    << [From |-> msg.From.bytes, Channel |-> msg.Channel.bytes,
        Content |-> msg.Content.bytes, Ciphertext |-> msg.Ciphertext.bytes,
        Sound |-> msg.Sound] >>

\* EncryptContent with the associated data taken from the AES half of the key
EncryptContentAadFromAESHalf(msg, key, nonce) ==
    IF ~msg.Content.isNil
    THEN LET aesgcm == NewAESGCM(key)
         IN  IF aesgcm.isNil \/ Len(key) < TagEnd
             THEN [m |-> msg, outcome |-> "panic", drew |-> TRUE]
             ELSE LET data == Seal(aesgcm, nonce, msg.Content.bytes,
                                   SubSeq(key, 1, TagStart))
                  IN  [m |-> [msg EXCEPT !.Ciphertext = Bytes(nonce \o data),
                                         !.Content = NilBytes],
                       outcome |-> "ok", drew |-> TRUE]
    ELSE [m |-> msg, outcome |-> "ok", drew |-> FALSE]

\* EncryptContent: the message afterwards and how the call ended.
\* The error of NewAESGCM is dropped, so with a key no cipher can be built
\* from the call goes on to Seal and panics there, before any assignment.
EncryptContent(msg, key, nonce) ==
    IF ~msg.Content.isNil
    THEN LET aesgcm == NewAESGCM(key)
         IN  IF aesgcm.isNil \/ Len(key) < TagEnd
             THEN [m |-> msg, outcome |-> "panic", drew |-> TRUE]
             ELSE LET data == Seal(aesgcm, nonce, msg.Content.bytes,
                                   SubSeq(key, TagStart + 1, TagEnd))
                  IN  [m |-> [msg EXCEPT !.Ciphertext = Bytes(nonce \o data),
                                         !.Content = NilBytes],
                       outcome |-> "ok", drew |-> TRUE]
    ELSE [m |-> msg, outcome |-> "ok", drew |-> FALSE]

\* the nonce with the timestamp written least significant byte first
EnvelopeNonceLittleEndian(ts) ==
    <<1, 1, 0, 8>> \o [i \in 1..8 |-> PutUint64(ts)[9 - i]]

\* the 12-byte nonce EncryptData builds from ts
EnvelopeNonce(ts) == <<1, 1, 0, 8>> \o PutUint64(ts)

\* EncryptData: the bytes returned and how the call ended
EncryptData(msg, key, ts) ==
    LET aesgcm == NewAESGCM(key)
        nonce == EnvelopeNonce(ts)
    IN  IF aesgcm.isNil \/ Len(key) < TagEnd
        THEN [out |-> <<>>, outcome |-> "panic"]
        ELSE LET tag == SubSeq(key, TagStart + 1, TagEnd)
                 out == Seal(aesgcm, nonce, Marshal(msg), tag)
             IN  [out |-> nonce \o out, outcome |-> "ok"]

----------------------------------------------------------------------------
(* The Message state machine *)

NoRet == [op |-> "NewMessage", key |-> <<>>, pre |-> NewMessage(CHOOSE tk \in Tokens : TRUE),
          outcome |-> "ok", drew |-> FALSE, out |-> <<>>]

InitMsg ==
    /\ \E tk \in Tokens :
          /\ m = NewMessage(tk)
          /\ ret = [NoRet EXCEPT !.pre = NewMessage(tk)]
    /\ envelopes = {}
    /\ nops = 0

\* a panic unwinds the caller: nothing more happens to this Message
Live == ret.outcome # "panic" /\ nops < MaxOps

Builder(op, msg) ==
    /\ m' = msg
    /\ ret' = [op |-> op, key |-> <<>>, pre |-> m, outcome |-> "ok",
               drew |-> FALSE, out |-> <<>>]
    /\ nops' = nops + 1
    /\ UNCHANGED envelopes
    /\ UNCHANGED reqVars

DoDisableToken == Live /\ Builder("DisableToken", DisableToken(m))

DoTextContent == Live /\ \E text \in Texts : Builder("TextContent", TextContent(m, text))

DoSoundName == Live /\ \E sound \in Sounds : Builder("SoundName", SoundName(m, sound))

DoEncryptContent ==
    /\ Live
    /\ \E key \in EncKeys, nonce \in RandNonces :
          LET r == EncryptContent(m, key, nonce)
          IN  /\ m' = r.m
              /\ ret' = [op |-> "EncryptContent", key |-> key, pre |-> m,
                         outcome |-> r.outcome, drew |-> r.drew, out |-> <<>>]
    /\ nops' = nops + 1
    /\ UNCHANGED envelopes
    /\ UNCHANGED reqVars

DoEncryptData ==
    /\ Live
    /\ Cardinality(envelopes) < MaxEnvelopes
    /\ \E key \in EncKeys, ts \in Timestamps :
          LET r == EncryptData(m, key, ts)
          IN  /\ ret' = [op |-> "EncryptData", key |-> key, pre |-> m,
                         outcome |-> r.outcome, drew |-> FALSE, out |-> r.out]
              /\ envelopes' =
                    IF r.outcome = "ok"
                    THEN envelopes \cup {[key |-> key, ts |-> ts, payload |-> Marshal(m),
                                          out |-> r.out]}
                    ELSE envelopes
    /\ nops' = nops + 1
    /\ UNCHANGED m
    /\ UNCHANGED reqVars

\* a caller stores a present, zero-length slice in the exported Content field
DoAssignEmptyContent ==
    /\ Live
    /\ Builder("AssignContent", [m EXCEPT !.Content = Bytes(<<>>)])


----------------------------------------------------------------------------
(* Request helpers of the core package: external capabilities *)

\* "application/x-chsec-json", one character per element
Marker ==
    << "a","p","p","l","i","c","a","t","i","o","n","/",
       "x","-","c","h","s","e","c","-","j","s","o","n" >>

\* strings.HasPrefix
HasPrefix(str, prefix) ==
    Len(str) >= Len(prefix) /\ SubSeq(str, 1, Len(prefix)) = prefix

\* the content types requests arrive with
ContentTypes ==
    { <<>>,
      Marker,
      Marker \o <<"2">>,
      SubSeq(Marker, 1, Len(Marker) - 1),
      <<"a","p","p","l","i","c","a","t","i","o","n","/","j","s","o","n">> }

\* the request bodies on the wire
Bodies == { <<>>, <<123, 125>>, <<200, 50, 52>>, <<200, 7>> }

RECURSIVE Sum(_)
Sum(b) == IF b = <<>> THEN 0 ELSE b[1] + Sum(Tail(b))

\* c.logic.Decrypt: rejects a body that is not an encrypted envelope,
\* otherwise returns the plaintext, which differs from the wire bytes
Decrypt(body) ==
    IF Len(body) < 2 \/ body[1] # 200
    THEN [err |-> TRUE, body |-> <<>>]
    ELSE [err |-> FALSE, body |-> [i \in 1..(Len(body) - 1) |-> (body[i + 1] + 73) % 256]]

NoObj == [set |-> FALSE, from |-> <<>>]

\* json.Unmarshal(data, obj): checks the input first and leaves obj alone on a syntax error
JSONUnmarshal(data, obj) ==
    IF Len(data) >= 2 /\ data[1] = 123 /\ data[Len(data)] = 125
    THEN [err |-> "nil", obj |-> [set |-> TRUE, from |-> data]]
    ELSE [err |-> "json", obj |-> obj]

\* the value of a base64 character, -1 for a character outside the alphabet
B64Index(c) ==
    CASE c = "A" -> 0
      [] c = "B" -> 1
      [] c = "L" -> 11
      [] c = "Q" -> 16
      [] c = "w" -> 48
      [] c = "+" -> 62
      [] c = "/" -> 63
      [] OTHER -> -1

\* one quantum of four characters: 1, 2 or 3 bytes
B64Quantum(q, last) ==
    LET v(i) == B64Index(q[i])
        pad == IF q[4] # "=" THEN 0 ELSE IF q[3] # "=" THEN 1 ELSE 2
        n == 4 - pad
        bad == \/ \E i \in 1..n : v(i) < 0
               \/ (pad > 0 /\ ~last)
        b1 == (v(1) * 4 + (v(2) \div 16)) % 256
        b2 == ((v(2) % 16) * 16 + (v(3) \div 4)) % 256
        b3 == ((v(3) % 4) * 64 + v(4)) % 256
    IN  IF bad THEN [err |-> TRUE, bytes |-> <<>>]
        ELSE [err |-> FALSE,
              bytes |-> IF pad = 2 THEN <<b1>> ELSE IF pad = 1 THEN <<b1, b2>> ELSE <<b1, b2, b3>>]

RECURSIVE DecodeString(_)
\* crypto.Base64Encode.DecodeString: padded base64
DecodeString(str) ==
    IF str = <<>> THEN [err |-> FALSE, bytes |-> <<>>]
    ELSE IF Len(str) < 4 THEN [err |-> TRUE, bytes |-> <<>>]
    ELSE LET q == B64Quantum(SubSeq(str, 1, 4), Len(str) = 4)
             rest == DecodeString(SubSeq(str, 5, Len(str)))
         IN  IF q.err \/ rest.err THEN [err |-> TRUE, bytes |-> <<>>]
             ELSE [err |-> FALSE, bytes |-> q.bytes \o rest.bytes]

\* crypto.LoadPublicKey: the key material's first byte names a known format
LoadPublicKey(kd) ==
    IF Len(kd) >= 1 /\ kd[1] = 1
    THEN [err |-> FALSE, id |-> kd]
    ELSE [err |-> TRUE, id |-> <<>>]

\* the one signature the holder of pk's private key produces over data
SignatureOf(id, data) == << (Sum(id) + Sum(data)) % 256 >>

\* pk.Verify(data, sign)
Verify(pk, data, sign) == sign = SignatureOf(pk.id, data)

\* header values of CHUserSign / CHDevSign
SignHeaders ==
    { <<>>, <<"+","Q","=","=">>, <<"L","w","=","=">>, <<"!","Q","=","=">>, <<"A","Q">> }

\* public keys as presented to verifyUser / verifyDevice
PublicKeys == { <<"A","Q","=","=">>, <<"B","Q","=","=">>, <<"A","?","=","=">> }

----------------------------------------------------------------------------
(* Request helpers of the core package: the code *)

NoCtx == [has |-> FALSE, body |-> <<>>]

\* bindBodyJSON recording the body only after transport decryption
bindBodyJSONRecordsDecrypted(c, r, obj) ==
    IF r.readErr
    THEN [ctx |-> c, err |-> "read", parsed |-> FALSE, input |-> <<>>, obj |-> obj]
    ELSE IF HasPrefix(r.contentType, Marker)
         THEN LET d == Decrypt(r.body)
              IN  IF d.err
                  THEN [ctx |-> c, err |-> "decrypt", parsed |-> FALSE,
                        input |-> <<>>, obj |-> obj]
                  ELSE LET j == JSONUnmarshal(d.body, obj)
                       IN  [ctx |-> [has |-> TRUE, body |-> d.body], err |-> j.err,
                            parsed |-> TRUE, input |-> d.body, obj |-> j.obj]
         ELSE LET j == JSONUnmarshal(r.body, obj)
              IN  [ctx |-> [has |-> TRUE, body |-> r.body], err |-> j.err,
                   parsed |-> TRUE, input |-> r.body, obj |-> j.obj]

\* bindBodyJSON dropping the error of Decrypt and parsing the wire bytes
bindBodyJSONIgnoresDecryptError(c, r, obj) ==
    LET c1 == [has |-> TRUE, body |-> r.body]
        d == Decrypt(r.body)
        body == IF HasPrefix(r.contentType, Marker) /\ ~d.err THEN d.body ELSE r.body
        j == JSONUnmarshal(body, obj)
    IN  IF r.readErr
        THEN [ctx |-> c, err |-> "read", parsed |-> FALSE, input |-> <<>>, obj |-> obj]
        ELSE [ctx |-> c1, err |-> j.err, parsed |-> TRUE, input |-> body, obj |-> j.obj]

\* bindBodyJSON: the context afterwards, the error returned, whether the JSON
\* parser was invoked and on which bytes, and the target object afterwards
bindBodyJSON(c, r, obj) ==
    IF r.readErr
    THEN [ctx |-> c, err |-> "read", parsed |-> FALSE, input |-> <<>>, obj |-> obj]
    ELSE LET c1 == [has |-> TRUE, body |-> r.body]
         IN  IF HasPrefix(r.contentType, Marker)
             THEN LET d == Decrypt(r.body)
                  IN  IF d.err
                      THEN [ctx |-> c1, err |-> "decrypt", parsed |-> FALSE,
                            input |-> <<>>, obj |-> obj]
                      ELSE LET j == JSONUnmarshal(d.body, obj)
                           IN  [ctx |-> c1, err |-> j.err, parsed |-> TRUE,
                                input |-> d.body, obj |-> j.obj]
             ELSE LET j == JSONUnmarshal(r.body, obj)
                  IN  [ctx |-> c1, err |-> j.err, parsed |-> TRUE,
                       input |-> r.body, obj |-> j.obj]

verifySign(key, sign, data) ==
    LET kd == DecodeString(key)
    IN  IF kd.err THEN FALSE
        ELSE LET pk == LoadPublicKey(kd.bytes)
             IN  IF pk.err THEN FALSE
                 ELSE Verify(pk, data, sign)

\* verifyUser and verifyDevice differ only in the header they read.
\* ctx.Get of a key never set yields nil, and data.([]byte) of nil panics.
verifyWith(c, header, key) ==
    LET sign == DecodeString(header)
    IN  IF sign.err
        THEN [outcome |-> "false", called |-> FALSE, data |-> <<>>]
        ELSE IF ~c.has
        THEN [outcome |-> "panic", called |-> FALSE, data |-> <<>>]
        ELSE [outcome |-> IF verifySign(key, sign.bytes, c.body) THEN "true" ELSE "false",
              called |-> TRUE, data |-> c.body]

verifyUser(c, hdrs, key) == verifyWith(c, hdrs.CHUserSign, key)

verifyDevice(c, hdrs, key) == verifyWith(c, hdrs.CHDevSign, key)


\* the characters token strings are made of
TokChars == {"/", "a", "b"}

RECURSIVE StringsUpTo(_)
StringsUpTo(n) ==
    IF n = 0 THEN { <<>> }
    ELSE LET shorter == StringsUpTo(n - 1)
         IN  shorter \cup { <<c>> \o t : c \in TokChars, t \in { u \in shorter : Len(u) = n - 1 } }

TokStrings == StringsUpTo(MaxTokLen)

NoToken == [isNil |-> TRUE, NodeID |-> "", Channel |-> <<>>]

\* model.ParseToken: decodes node id and channel, or fails with ErrInvalidToken
ParseToken(token) ==
    IF token = <<>> \/ \E i \in 1..Len(token) : token[i] = "/"
    THEN [tk |-> NoToken, err |-> "ErrInvalidToken"]
    ELSE [tk |-> [isNil |-> FALSE, NodeID |-> token[1], Channel |-> Tail(token)],
          err |-> "nil"]

\* c.logic.VerifyToken: the policy check on a decoded token
VerifyToken(tk) == tk.NodeID = "a"

\* parseToken without the policy check
parseTokenNoPolicy(token) ==
    LET r == ParseToken(token)
    IN  IF r.err # "nil" THEN [tk |-> NoToken, err |-> r.err]
        ELSE [tk |-> r.tk, err |-> "nil"]

parseToken(token) ==
    LET r == ParseToken(token)
    IN  IF r.err # "nil" THEN [tk |-> NoToken, err |-> r.err]
        ELSE IF ~VerifyToken(r.tk) THEN [tk |-> NoToken, err |-> "ErrInvalidToken"]
        ELSE [tk |-> r.tk, err |-> "nil"]

\* getToken stripping the leading separator from whichever source it took
getTokenStripsAnySource(header, query, param) ==
    LET token == IF Len(header) > 0 THEN header
                 ELSE IF Len(query) > 0 THEN query ELSE param
    IN  IF Len(token) > 0 /\ token[1] = "/" THEN Tail(token) ELSE token

getToken(header, query, param) ==
    IF Len(header) <= 0
    THEN IF Len(query) <= 0
         THEN IF Len(param) > 0 /\ param[1] = "/" THEN Tail(param) ELSE param
         ELSE query
    ELSE header

----------------------------------------------------------------------------
(* The request state machine: bindBodyJSON once, verifications in any order *)

NoBind == [done |-> FALSE, err |-> "nil", parsed |-> FALSE, input |-> <<>>, obj |-> NoObj]

NoVer == [op |-> "none", hdrs |-> [CHUserSign |-> <<>>, CHDevSign |-> <<>>], key |-> <<>>,
          outcome |-> "none", called |-> FALSE, data |-> <<>>]

NoTok == [step |-> "none", header |-> <<>>, query |-> <<>>, param |-> <<>>,
          token |-> <<>>, tk |-> NoToken, err |-> "nil"]

IdleReq ==
    /\ req = [body |-> <<>>, readErr |-> FALSE, contentType |-> <<>>]
    /\ ctx = NoCtx
    /\ bind = NoBind
    /\ ver = NoVer
    /\ tok = NoTok

InitReq ==
    /\ req \in [body : Bodies, readErr : BOOLEAN, contentType : ContentTypes]
    /\ ctx = NoCtx
    /\ bind = NoBind
    /\ ver = NoVer
    /\ tok = NoTok

\* a panic unwinds the handler
Serving == ver.outcome # "panic"

DoBindBodyJSON ==
    /\ Serving
    /\ ~bind.done
    /\ LET r == bindBodyJSON(ctx, req, bind.obj)
       IN  /\ ctx' = r.ctx
           /\ bind' = [done |-> TRUE, err |-> r.err, parsed |-> r.parsed,
                       input |-> r.input, obj |-> r.obj]
    /\ UNCHANGED <<req, ver, tok>>
    /\ UNCHANGED msgVars

Verification(op, hdrs, key, r) ==
    /\ ver' = [op |-> op, hdrs |-> hdrs, key |-> key, outcome |-> r.outcome,
               called |-> r.called, data |-> r.data]
    /\ UNCHANGED <<req, ctx, bind, tok>>
    /\ UNCHANGED msgVars

DoVerifyUser ==
    /\ Serving
    /\ \E u \in SignHeaders, d \in SignHeaders, key \in PublicKeys :
          LET hdrs == [CHUserSign |-> u, CHDevSign |-> d]
          IN  Verification("verifyUser", hdrs, key, verifyUser(ctx, hdrs, key))

DoVerifyDevice ==
    /\ Serving
    /\ \E u \in SignHeaders, d \in SignHeaders, key \in PublicKeys :
          LET hdrs == [CHUserSign |-> u, CHDevSign |-> d]
          IN  Verification("verifyDevice", hdrs, key, verifyDevice(ctx, hdrs, key))

----------------------------------------------------------------------------
(* Token resolution: getToken, then parseToken on what it resolved *)

DoGetToken ==
    /\ tok.step = "none"
    /\ \E header \in TokStrings, query \in TokStrings, param \in TokStrings :
          tok' = [step |-> "got", header |-> header, query |-> query, param |-> param,
                  token |-> getToken(header, query, param), tk |-> NoToken, err |-> "nil"]
    /\ UNCHANGED <<req, ctx, bind, ver>>
    /\ UNCHANGED msgVars

DoParseToken ==
    /\ tok.step = "got"
    /\ LET r == parseToken(tok.token)
       IN  tok' = [tok EXCEPT !.step = "parsed", !.tk = r.tk, !.err = r.err]
    /\ UNCHANGED <<req, ctx, bind, ver>>
    /\ UNCHANGED msgVars

----------------------------------------------------------------------------------------------------------------------------------------------------
(* Specifications *)

IdleMsg ==
    /\ m = NewMessage(CHOOSE tk \in Tokens : TRUE)
    /\ ret = NoRet
    /\ envelopes = {}
    /\ nops = 0

\* one Message and the operations of model/message.go
Init == InitMsg /\ IdleReq

Next ==
    \/ DoDisableToken
    \/ DoTextContent
    \/ DoSoundName
    \/ DoEncryptContent
    \/ DoEncryptData

Spec == Init /\ [][Next]_vars

\* the same, with callers that also write the exported Content field
NextField ==
    \/ DoDisableToken
    \/ DoTextContent
    \/ DoSoundName
    \/ DoEncryptContent
    \/ DoEncryptData
    \/ DoAssignEmptyContent

SpecField == Init /\ [][NextField]_vars

\* one request: bindBodyJSON and the signature checks
InitRequest == IdleMsg /\ InitReq

NextRequest ==
    \/ DoBindBodyJSON
    \/ DoVerifyUser
    \/ DoVerifyDevice

SpecReq == InitRequest /\ [][NextRequest]_vars

\* token resolution
InitToken == IdleMsg /\ IdleReq

NextToken ==
    \/ DoGetToken
    \/ DoParseToken

SpecTok == InitToken /\ [][NextToken]_vars

----------------------------------------------------------------------------
(* Properties *)

\* C1: in every state reachable from NewMessage by TextContent, SoundName,
\* DisableToken, EncryptContent and EncryptData, Content and Ciphertext are
\* never both non-empty.
C1_ContentCiphertextExclusive ==
    ~(NonEmpty(m.Content) /\ NonEmpty(m.Ciphertext))

\* C2: once bindBodyJSON has read the body, the bytes recorded under the
\* body-bytes key are the wire bytes, whether or not Decrypt ran or failed,
\* and every verifyUser / verifyDevice call that reaches signature
\* verification passes exactly the wire bytes.
C2_SignatureOverWireBytes ==
    /\ (bind.done /\ bind.err # "read") => (ctx.has /\ ctx.body = req.body)
    /\ ctx.has => ctx.body = req.body
    /\ ver.called => ver.data = req.body

\* a marked request whose body decrypts to something else, and whose
\* signature over the wire bytes was accepted after bindBodyJSON
C2_Witness ==
    /\ bind.done
    /\ bind.parsed
    /\ bind.input # req.body
    /\ ver.called
    /\ ver.outcome = "true"

\* the content type starts with the encrypted-body marker
Marked(contentType) ==
    \E n \in 0..Len(contentType) :
        contentType = Marker \o SubSeq(contentType, Len(contentType) - n + 1, Len(contentType))

\* C3: bindBodyJSON hands Decrypt(rawBytes) to the JSON parser when the
\* content type carries the marker and rawBytes otherwise; when the content
\* type is marked and Decrypt rejects the body it returns that error, never
\* invokes the parser and leaves the target object untouched.
C3_ParserInput ==
    (bind.done /\ bind.err # "read") =>
        IF Marked(req.contentType)
        THEN IF Decrypt(req.body).err
             THEN bind.err = "decrypt" /\ ~bind.parsed /\ bind.obj = NoObj
             ELSE bind.parsed /\ bind.input = Decrypt(req.body).body
        ELSE bind.parsed /\ bind.input = req.body

\* a marked request with a body Decrypt rejects, after bindBodyJSON
C3_Witness ==
    /\ bind.done
    /\ Marked(req.contentType)
    /\ req.contentType # Marker
    /\ ~req.readErr
    /\ Decrypt(req.body).err
    /\ bind.err = "decrypt"

\* C4: verifyUser / verifyDevice return true only if both base64 decodings,
\* key loading and verification over the presented bytes succeed; on every
\* other input and in every state of the request context they return false
\* and never raise.
C4_VerifyFailsClosed ==
    ver.op # "none" =>
        LET hdr == IF ver.op = "verifyUser" THEN ver.hdrs.CHUserSign ELSE ver.hdrs.CHDevSign
            sign == DecodeString(hdr)
            kd == DecodeString(ver.key)
            pk == LoadPublicKey(kd.bytes)
            good == /\ ~sign.err
                    /\ ~kd.err
                    /\ ~pk.err
                    /\ ctx.has
                    /\ Verify(pk, ctx.body, sign.bytes)
        IN  ver.outcome = (IF good THEN "true" ELSE "false")

\* C5: parseToken returns a Token only if ParseToken and VerifyToken both
\* succeed; in every other case it returns no Token and ErrInvalidToken.
C5_TokenOnlyIfDecodedAndVerified ==
    tok.step = "parsed" =>
        LET d == ParseToken(tok.token)
        IN  IF d.err = "nil" /\ VerifyToken(d.tk)
            THEN tok.tk = d.tk /\ ~tok.tk.isNil /\ tok.err = "nil"
            ELSE tok.tk = NoToken /\ tok.err = "ErrInvalidToken"

\* a token that decodes and that the policy check rejects
C5_Witness ==
    /\ tok.step = "parsed"
    /\ ParseToken(tok.token).err = "nil"
    /\ ~VerifyToken(ParseToken(tok.token).tk)
    /\ tok.err = "ErrInvalidToken"

\* C6: getToken resolves the header value if non-empty, else the query
\* parameter if non-empty, else the path segment with a single leading "/"
\* stripped; the separator is stripped from the path segment only.
C6_TokenPrecedence ==
    tok.step # "none" =>
        /\ tok.header # <<>> => tok.token = tok.header
        /\ (tok.header = <<>> /\ tok.query # <<>>) => tok.token = tok.query
        /\ (tok.header = <<>> /\ tok.query = <<>>) =>
              \/ /\ tok.param # <<>>
                 /\ Head(tok.param) = "/"
                 /\ tok.param = <<"/">> \o tok.token
              \/ /\ (tok.param = <<>> \/ Head(tok.param) # "/")
                 /\ tok.token = tok.param

\* only the path segment is present and it starts with two separators
C6_Witness ==
    /\ tok.step # "none"
    /\ tok.header = <<>>
    /\ tok.query = <<>>
    /\ tok.param = <<"/", "/">>
    /\ tok.token = <<"/">>

\* the first 12 bytes of an EncryptData output
NonceOf(out) == SubSeq(out, 1, NonceLen)

\* C7: the first 12 bytes of every EncryptData output are 01 01 00 08
\* followed by the timestamp big-endian, whatever the key and the message;
\* two outputs carry equal nonces exactly when their timestamps are equal,
\* and nonces never differ within the first four bytes.
C7_NonceFromTimestamp ==
    /\ \A e \in envelopes :
          /\ Len(e.out) > NonceLen
          /\ SubSeq(e.out, 1, 4) = <<1, 1, 0, 8>>
          /\ \A w \in 1..4 : e.out[3 + 2 * w] * 256 + e.out[4 + 2 * w] = e.ts[w]
          /\ \A i \in 5..NonceLen : e.out[i] \in 0..255
    /\ \A e1 \in envelopes, e2 \in envelopes :
          /\ (NonceOf(e1.out) = NonceOf(e2.out)) <=> (e1.ts = e2.ts)
          /\ SubSeq(e1.out, 1, 4) = SubSeq(e2.out, 1, 4)
    /\ (ret.op = "EncryptData" /\ ret.outcome = "ok") =>
          \E e \in envelopes : e.out = ret.out /\ e.key = ret.key

\* two outputs under the same key and timestamp with different payloads
\* share their nonce
C7_Witness ==
    \E e1 \in envelopes, e2 \in envelopes :
        /\ e1.key = e2.key
        /\ e1.ts = e2.ts
        /\ e1.ts = <<258, 772, 1286, 1800>>
        /\ e1.payload # e2.payload
        /\ e1.out # e2.out
        /\ NonceOf(e1.out) = NonceOf(e2.out)

\* EncryptContent returned after sealing a present Content
Sealed == ret.op = "EncryptContent" /\ ret.outcome = "ok" /\ ret.drew

\* C8: the Ciphertext EncryptContent(K) produces from content P is a 12-byte
\* nonce followed by the sealing of P under K[0:32] with associated data
\* K[32:64]; opening it with K recovers P, opening it with another 64-byte
\* key fails.
C8_SealedContentOpensOnlyWithKey ==
    Sealed =>
        LET ct == m.Ciphertext.bytes
            K == ret.key
            P == ret.pre.Content.bytes
        IN  /\ NonceOf(ct) \in RandNonces
            /\ SubSeq(ct, NonceLen + 1, Len(ct)) =
                  Seal([isNil |-> FALSE, key |-> SubSeq(K, 1, TagStart)], NonceOf(ct), P,
                       SubSeq(K, TagStart + 1, TagEnd))
            /\ OpenFramed(K, ct) = [ok |-> TRUE, p |-> P]
            /\ \A other \in OpenKeys \ {K} : ~OpenFramed(other, ct).ok

\* a text content sealed under K3
C8_Witness ==
    /\ Sealed
    /\ ret.key = K3
    /\ ret.pre.Content = MarshalMsgContent(<<97>>)
    /\ ~m.Ciphertext.isNil

\* C9: when the cipher cannot be built from the key, EncryptContent and
\* EncryptData fail with an explicit cipher-setup error, produce no output
\* and leave the Message unchanged.
C9_FailFastOnMalformedKey ==
    ( /\ ~WellFormed(ret.key)
      /\ \/ ret.op = "EncryptData"
         \/ ret.op = "EncryptContent" /\ ~ret.pre.Content.isNil )
    => /\ ret.outcome = "CryptoSetupError"
       /\ ret.out = <<>>
       /\ m = ret.pre

\* C10: EncryptContent is a no-op whenever Content is empty, unset or
\* present with zero length: the Message is unchanged and no nonce is drawn.
C10_NoOpOnEmptyContent ==
    (ret.op = "EncryptContent" /\ ret.outcome = "ok" /\ ~NonEmpty(ret.pre.Content))
    => (m = ret.pre /\ ~ret.drew)


====
